---- MODULE Spec2Model ----
(***************************************************************************)
(* DocumentAnalyzer (src/src/document_analyzer/data_analysis.py).          *)
(*                                                                         *)
(* The analyzer is constructed once (__init__, lines 51-67) and then       *)
(* serves analyze_document calls (lines 70-90).  A call composes the chain *)
(* prompt | llm | fixing_parser and invokes it; the chain renders the      *)
(* prompt, calls the language model, and hands the model's text to the     *)
(* OutputFixingParser built at line 58 around the JsonOutputParser built   *)
(* at line 57.  The two parsers are the LangChain classes the source       *)
(* imports at lines 42-43; their steps are modelled as those classes       *)
(* execute them:                                                           *)
(*   - JsonOutputParser.parse decodes the text as JSON and returns the     *)
(*     decoded value as it is; pydantic_object only feeds                  *)
(*     get_format_instructions, the decoded value is not validated         *)
(*     against it.  Text that cannot be decoded raises                     *)
(*     OutputParserException.                                              *)
(*   - OutputFixingParser.parse loops "while retries <= max_retries":      *)
(*     it tries the wrapped parser, on OutputParserException raises when   *)
(*     retries == max_retries, and otherwise increments retries and asks   *)
(*     the model for a corrected completion.  from_llm's default           *)
(*     max_retries is 1.                                                   *)
(* A Generator answer is modelled by what the parser makes of the text.    *)
(***************************************************************************)
EXTENDS Naturals, Sequences, FiniteSets

\* Number of analyze_document invocations issued on the one analyzer; they
\* may overlap in any way.
NumCalls == 2

Calls == 1..NumCalls

\* ---------------------------------------------------------------- schema

\* Metadata (model.models, imported at line 41): the schema's fields.
SchemaFields == {"title", "tags"}

RequiredFields == {"title"}

\* The key sets of the JSON objects the Generator is let to answer with:
\* schema fields, and one key ("extra") that is no schema field.
KeySets == { {}, {"tags"}, {"title"}, {"title", "tags", "extra"} }

\* ------------------------------------------------------------ generator

\* What one llm call yields: a transport failure, text that is no JSON,
\* a JSON object, or JSON that is no object (a list, a number, a string).
Answers ==
  { [kind |-> "transport", keys |-> {}],
    [kind |-> "invalid",   keys |-> {}],
    [kind |-> "nonobject", keys |-> {}] }
  \cup { [kind |-> "object", keys |-> k] : k \in KeySets }

NoResponse == [isdict |-> FALSE, keys |-> {}]

\* ----------------------------------------------------------- exceptions

NoExc == [type |-> "none", msg |-> ""]

KeyErrorExc == [type |-> "KeyError", msg |-> "missing prompt variables"]

TransportExc == [type |-> "TransportError", msg |-> "generator call failed"]

InvalidJsonExc == [type |-> "OutputParserException", msg |-> "Invalid json output"]

FailedToParseExc == [type |-> "OutputParserException", msg |-> "Failed to parse"]

AttributeExc == [type |-> "AttributeError", msg |-> "object has no attribute keys"]

LoggerExc == [type |-> "LoggerError", msg |-> "log sink failed"]

InitExc(step) == [type |-> "InitError", msg |-> step]

NotRaised == [kind |-> "none", message |-> "", context |-> NoExc]

\* ------------------------------------------------------------- prompts

\* The inputs chain.invoke supplies (lines 79-82).
SuppliedInputs == {"format_instructions", "document_text"}

\* PROMPT_REGISTRY["document_analysis"]: the template's placeholders.
PromptTemplates ==
  { {"format_instructions", "document_text"},
    {"document_text"},
    {"format_instructions", "document_text", "context"} }

NoConfig == [llm |-> FALSE, parser |-> FALSE, fixing_parser |-> FALSE,
             hasPrompt |-> FALSE, prompt |-> {}]

\* The steps of __init__ that can raise, in program order; "none": none does.
ConstructFailures == {"none", "loader", "load_llm", "parser", "fixing_parser", "prompt"}

VARIABLES
  constructed,  \* "no" | "ready" | "failed": whether an analyzer instance exists
  config,       \* self.llm, self.parser, self.fixing_parser, self.prompt
  initRaised,   \* what DocumentAnalyzer() raised
  log,          \* GLOBAL_LOGGER's events, per emitter: 0 is __init__, c a call
  pc,           \* each call's position in analyze_document
  answers,      \* each call's Generator answers so far, in order
  genCalls,     \* each call's number of Generator invocations
  retries,      \* OutputFixingParser.parse's retries counter, per slot
  response,     \* each call's local `response`
  exc,          \* the exception the call's except clause caught
  raised        \* what the call raised to its caller

vars == <<constructed, config, initRaised, log, pc, answers, genCalls,
          retries, response, exc, raised>>

\* ------------------------------------------------------------- logging

InfoEvent(m, ks) == [level |-> "info", msg |-> m, keys |-> ks, error |-> ""]

ErrorEvent(m, e) == [level |-> "error", msg |-> m, keys |-> {}, error |-> e]

\* ------------------------------------------------------------ __init__

\* The attributes assigned before step `fail` raises (lines 53-60).
ConfigAfter(fail, tmpl) ==
  [llm           |-> fail \notin {"loader", "load_llm"},
   parser        |-> fail \notin {"loader", "load_llm", "parser"},
   fixing_parser |-> fail \notin {"loader", "load_llm", "parser", "fixing_parser"},
   hasPrompt     |-> fail = "none",
   prompt        |-> IF fail = "none" THEN tmpl ELSE {}]

InitOutcomeSwallowed(fail) == "ready"

\* Lines 65-67: the except clause re-raises, so the constructor expression
\* yields no instance unless the try block ran to its end.
InitOutcome(fail) == IF fail = "none" THEN "ready" ELSE "failed"

WrapInit(e) ==
  [kind |-> "DocumentPortalException",
   message |-> "Error in DocumentAnalyzer initialization",
   context |-> e]

\* DocumentAnalyzer(): the whole of __init__, the logger working.
Construct ==
  /\ constructed = "no"
  /\ \E fail \in ConstructFailures, tmpl \in PromptTemplates :
       /\ config' = ConfigAfter(fail, tmpl)
       /\ constructed' = InitOutcome(fail)
       /\ IF fail = "none"
            THEN /\ log' = [log EXCEPT ![0] =
                      <<InfoEvent("DocumentAnalyzer initialized successfully", {})>>]
                 /\ initRaised' = NotRaised
            ELSE /\ log' = [log EXCEPT ![0] =
                      <<ErrorEvent("Error initializing DocumentAnalyzer", fail)>>]
                 /\ initRaised' = WrapInit(InitExc(fail))
  /\ UNCHANGED <<pc, answers, genCalls, retries, response, exc, raised>>

\* DocumentAnalyzer() with log.info (line 62) raising: line 62 is inside the
\* try block, so the except clause takes it as an initialization failure.
ConstructLogRaise ==
  /\ constructed = "no"
  /\ \E tmpl \in PromptTemplates, errorLogOk \in BOOLEAN :
       /\ config' = ConfigAfter("none", tmpl)
       /\ constructed' = "failed"
       /\ IF errorLogOk
            THEN /\ log' = [log EXCEPT ![0] =
                      <<ErrorEvent("Error initializing DocumentAnalyzer", LoggerExc.msg)>>]
                 /\ initRaised' = WrapInit(LoggerExc)
            ELSE /\ log' = log
                 /\ initRaised' = [kind |-> LoggerExc.type, message |-> LoggerExc.msg,
                                   context |-> LoggerExc]
  /\ UNCHANGED <<pc, answers, genCalls, retries, response, exc, raised>>

\* ---------------------------------------------------- analyze_document

\* Rendering the prompt: every placeholder of the template must be supplied.
RenderOk(tmpl) == tmpl \subseteq SuppliedInputs

ParserAcceptsStrict(a) == a.kind \in {"object", "nonobject"} /\ a.keys \subseteq SchemaFields

\* JsonOutputParser.parse: any text that decodes as JSON is accepted.
ParserAccepts(a) == a.kind \in {"object", "nonobject"}

\* JsonOutputParser.parse: the decoded value, every key of the text kept.
JsonParse(a) == [isdict |-> a.kind = "object", keys |-> a.keys]

\* OutputFixingParser.from_llm(parser=..., llm=...) at line 58: no
\* max_retries argument is passed, the default applies.
max_retries == 1

RetriesExhaustedLate(r) == r > max_retries

RetriesExhaustedEarly(r) == r >= 0

\* OutputFixingParser.parse: "if retries == self.max_retries: raise e".
RetriesExhausted(r) == r = max_retries

\* OutputFixingParser.parse: "while retries <= self.max_retries".
LoopContinues(r) == r <= max_retries

RetrySlotShared(c) == 1

\* Where a call keeps its retries counter: a local of its own parse().
RetrySlot(c) == c

WrapBare(e) ==
  [kind |-> "DocumentPortalException", message |-> "Metadata extraction failed",
   context |-> NoExc]

\* Line 90: raise DocumentPortalException("Metadata extraction failed", sys)
\* inside the except clause; the caught exception rides along as the new
\* exception's context.
Wrap(e) ==
  [kind |-> "DocumentPortalException", message |-> "Metadata extraction failed",
   context |-> e]

FailureEventsNone(e) == << >>

\* Line 89: log.error("Metadata analysis failed", error=str(e)).
FailureEvents(e) == <<ErrorEvent("Metadata analysis failed", e.msg)>>

\* Lines 75-77: the chain is composed and the chain-start event logged.
Begin(c) ==
  /\ constructed = "ready"
  /\ pc[c] = "idle"
  /\ log' = [log EXCEPT ![c] = Append(@, InfoEvent("Meta-data analysis chain initialized", {}))]
  /\ pc' = [pc EXCEPT ![c] = "render"]
  /\ UNCHANGED <<constructed, config, initRaised, answers, genCalls, retries,
                 response, exc, raised>>

\* Lines 79-82, first stage of the chain: the prompt is rendered.
Render(c) ==
  /\ pc[c] = "render"
  /\ IF config.hasPrompt /\ RenderOk(config.prompt)
       THEN /\ pc' = [pc EXCEPT ![c] = "generate"]
            /\ exc' = exc
       ELSE /\ pc' = [pc EXCEPT ![c] = "except"]
            /\ exc' = [exc EXCEPT ![c] = KeyErrorExc]
  /\ UNCHANGED <<constructed, config, initRaised, log, answers, genCalls,
                 retries, response, raised>>

\* Second stage: the llm is called; its text enters fixing_parser.parse,
\* which starts with retries = 0.
Generate(c) ==
  /\ pc[c] = "generate"
  /\ \E a \in Answers :
       /\ answers' = [answers EXCEPT ![c] = Append(@, a)]
       /\ genCalls' = [genCalls EXCEPT ![c] = @ + 1]
       /\ IF a.kind = "transport"
            THEN /\ pc' = [pc EXCEPT ![c] = "except"]
                 /\ exc' = [exc EXCEPT ![c] = TransportExc]
                 /\ retries' = retries
            ELSE /\ pc' = [pc EXCEPT ![c] = "parse"]
                 /\ exc' = exc
                 /\ retries' = [retries EXCEPT ![RetrySlot(c)] = 0]
  /\ UNCHANGED <<constructed, config, initRaised, log, response, raised>>

\* The completion fixing_parser.parse currently holds.
Completion(c) == answers[c][Len(answers[c])]

\* One iteration of OutputFixingParser.parse's loop, up to the repair call.
Parse(c) ==
  /\ pc[c] = "parse"
  /\ LET r == retries[RetrySlot(c)]
         a == Completion(c)
     IN  IF ~LoopContinues(r)
           THEN /\ pc' = [pc EXCEPT ![c] = "except"]
                /\ exc' = [exc EXCEPT ![c] = FailedToParseExc]
                /\ UNCHANGED <<retries, response>>
         ELSE IF ParserAccepts(a)
           THEN /\ pc' = [pc EXCEPT ![c] = "logsuccess"]
                /\ response' = [response EXCEPT ![c] = JsonParse(a)]
                /\ UNCHANGED <<retries, exc>>
         ELSE IF RetriesExhausted(r)
           THEN /\ pc' = [pc EXCEPT ![c] = "except"]
                /\ exc' = [exc EXCEPT ![c] = InvalidJsonExc]
                /\ UNCHANGED <<retries, response>>
         ELSE /\ pc' = [pc EXCEPT ![c] = "repair"]
              /\ retries' = [retries EXCEPT ![RetrySlot(c)] = r + 1]
              /\ UNCHANGED <<response, exc>>
  /\ UNCHANGED <<constructed, config, initRaised, log, answers, genCalls, raised>>

\* OutputFixingParser.parse's retry_chain.invoke: the llm is asked to
\* correct the completion; only OutputParserException is caught there.
Repair(c) ==
  /\ pc[c] = "repair"
  /\ \E a \in Answers :
       /\ answers' = [answers EXCEPT ![c] = Append(@, a)]
       /\ genCalls' = [genCalls EXCEPT ![c] = @ + 1]
       /\ IF a.kind = "transport"
            THEN /\ pc' = [pc EXCEPT ![c] = "except"]
                 /\ exc' = [exc EXCEPT ![c] = TransportExc]
            ELSE /\ pc' = [pc EXCEPT ![c] = "parse"]
                 /\ exc' = exc
  /\ UNCHANGED <<constructed, config, initRaised, log, retries, response, raised>>

\* Lines 84-86: response.keys() is evaluated, the success event logged,
\* the response returned.
LogSuccess(c) ==
  /\ pc[c] = "logsuccess"
  /\ IF response[c].isdict
       THEN /\ log' = [log EXCEPT ![c] =
                 Append(@, InfoEvent("Metadata extraction successful", response[c].keys))]
            /\ pc' = [pc EXCEPT ![c] = "returned"]
            /\ exc' = exc
       ELSE /\ log' = log
            /\ pc' = [pc EXCEPT ![c] = "except"]
            /\ exc' = [exc EXCEPT ![c] = AttributeExc]
  /\ UNCHANGED <<constructed, config, initRaised, answers, genCalls, retries,
                 response, raised>>

\* Lines 88-90: the except clause logs the failure and raises the wrapper.
Except(c) ==
  /\ pc[c] = "except"
  /\ log' = [log EXCEPT ![c] = @ \o FailureEvents(exc[c])]
  /\ raised' = [raised EXCEPT ![c] = Wrap(exc[c])]
  /\ pc' = [pc EXCEPT ![c] = "failed"]
  /\ UNCHANGED <<constructed, config, initRaised, answers, genCalls, retries,
                 response, exc>>

\* ------------------------------------------------ a logger that raises

\* Line 77 raising: the call is inside the try block.
BeginLogRaise(c) ==
  /\ constructed = "ready"
  /\ pc[c] = "idle"
  /\ pc' = [pc EXCEPT ![c] = "except"]
  /\ exc' = [exc EXCEPT ![c] = LoggerExc]
  /\ UNCHANGED <<constructed, config, initRaised, log, answers, genCalls,
                 retries, response, raised>>

\* Line 84 raising after the chain returned a dict.
LogSuccessRaise(c) ==
  /\ pc[c] = "logsuccess"
  /\ response[c].isdict
  /\ pc' = [pc EXCEPT ![c] = "except"]
  /\ exc' = [exc EXCEPT ![c] = LoggerExc]
  /\ UNCHANGED <<constructed, config, initRaised, log, answers, genCalls,
                 retries, response, raised>>

\* Line 89 raising: the logger's exception leaves the except clause and
\* line 90 is not reached.
ExceptLogRaise(c) ==
  /\ pc[c] = "except"
  /\ raised' = [raised EXCEPT ![c] =
        [kind |-> LoggerExc.type, message |-> LoggerExc.msg, context |-> exc[c]]]
  /\ pc' = [pc EXCEPT ![c] = "failed"]
  /\ UNCHANGED <<constructed, config, initRaised, log, answers, genCalls,
                 retries, response, exc>>

\* ------------------------------------------------------- specifications

Init ==
  /\ constructed = "no"
  /\ config = NoConfig
  /\ initRaised = NotRaised
  /\ log = [e \in 0..NumCalls |-> << >>]
  /\ pc = [c \in Calls |-> "idle"]
  /\ answers = [c \in Calls |-> << >>]
  /\ genCalls = [c \in Calls |-> 0]
  /\ retries = [c \in Calls |-> 0]
  /\ response = [c \in Calls |-> NoResponse]
  /\ exc = [c \in Calls |-> NoExc]
  /\ raised = [c \in Calls |-> NotRaised]

Step(c) ==
  \/ Begin(c)
  \/ Render(c)
  \/ Generate(c)
  \/ Parse(c)
  \/ Repair(c)
  \/ LogSuccess(c)
  \/ Except(c)

LogRaiseStep(c) ==
  \/ BeginLogRaise(c)
  \/ LogSuccessRaise(c)
  \/ ExceptLogRaise(c)

\* The logger returns normally from every call.
Next ==
  \/ Construct
  \/ \E c \in Calls : Step(c)

Spec == Init /\ [][Next]_vars

\* Any logging call may raise.
NextLogFail ==
  \/ Construct
  \/ ConstructLogRaise
  \/ \E c \in Calls : Step(c)
  \/ \E c \in Calls : LogRaiseStep(c)

SpecLogFail == Init /\ [][NextLogFail]_vars

\* ------------------------------------------- one call, run on its own

Returned(resp, n) == [outcome |-> "returned", response |-> resp, raised |-> NotRaised, calls |-> n]

Failed(e, n) == [outcome |-> "failed", response |-> NoResponse, raised |-> Wrap(e), calls |-> n]

\* chain.invoke from the llm stage on, fed the answers `ans` one after the
\* other, with nothing else running: answer i is the completion, r the
\* retries made so far.
RECURSIVE FixingParse(_, _, _)
FixingParse(ans, i, r) ==
  LET a == ans[i]
  IN  IF a.kind = "transport" THEN Failed(TransportExc, i)
      ELSE IF ParserAccepts(a)
        THEN IF JsonParse(a).isdict THEN Returned(JsonParse(a), i)
                                    ELSE Failed(AttributeExc, i)
      ELSE IF RetriesExhausted(r) THEN Failed(InvalidJsonExc, i)
      ELSE IF i = Len(ans) THEN Failed(NoExc, i)
      ELSE FixingParse(ans, i + 1, r + 1)

\* analyze_document (lines 74-90) run alone against the answers `ans`.
RunAlone(tmpl, ans) ==
  IF ~RenderOk(tmpl) THEN Failed(KeyErrorExc, 0)
  ELSE FixingParse(ans, 1, 0)

\* -------------------------------------------------------------- claims

Terminal(c) == pc[c] \in {"returned", "failed"}

AllInvalid(c) ==
  /\ answers[c] # << >>
  /\ \A i \in 1..Len(answers[c]) : answers[c][i].kind = "invalid"

\* What the caller of call c gets: a response, or an exception.
Outcome(c) ==
  [outcome |-> pc[c],
   response |-> IF pc[c] = "returned" THEN response[c] ELSE NoResponse,
   raised |-> raised[c],
   calls |-> genCalls[c]]

C2_OneRepair ==
  \A c \in Calls :
    /\ (Len(answers[c]) = 1 /\ answers[c][1].kind = "invalid") =>
         pc[c] \in {"parse", "repair"}
    /\ (/\ Len(answers[c]) >= 2
        /\ answers[c][1].kind = "invalid"
        /\ answers[c][2].kind = "object") =>
         /\ genCalls[c] = 2
         /\ pc[c] \in {"parse", "logsuccess", "returned"}
         /\ pc[c] # "parse" => response[c] = [isdict |-> TRUE, keys |-> answers[c][2].keys]

C2_Witness ==
  \E c \in Calls :
    /\ pc[c] = "returned"
    /\ answers[c][1].kind = "invalid"
    /\ genCalls[c] = 2
    /\ response[c].keys = {"title", "tags", "extra"}

Conformant(a) == a.kind = "object" /\ RequiredFields \subseteq a.keys

\* C3: a call whose first answer is a JSON object with the required
\* fields never enters repair, never fails, invokes the Generator exactly
\* once, and returns that first answer's object.
C3_FastPath ==
  \A c \in Calls :
    (answers[c] # << >> /\ Conformant(answers[c][1])) =>
      /\ pc[c] \in {"parse", "logsuccess", "returned"}
      /\ genCalls[c] = 1
      /\ retries[c] = 0
      /\ pc[c] = "returned" => response[c] = [isdict |-> TRUE, keys |-> answers[c][1].keys]

C3_Witness ==
  \E c \in Calls :
    /\ pc[c] = "returned"
    /\ genCalls[c] = 1
    /\ answers[c][1].keys = {"title", "tags", "extra"}

\* C4: a call that has returned has returned every required field, and a
\* JSON object lacking a required field is rejected by the parser (the call
\* goes on to repair instead of to the success event).
C4_NoPartialResults ==
  \A c \in Calls :
    /\ pc[c] = "returned" => RequiredFields \subseteq response[c].keys
    /\ (pc[c] = "logsuccess" /\ Len(answers[c]) = 1) =>
         RequiredFields \subseteq answers[c][1].keys

\* C5: extra fields never send a call to repair, and the keys of a returned
\* result are schema fields only.
C5_ExtraFieldsDropped ==
  \A c \in Calls :
    /\ (answers[c] # << >> /\ Conformant(answers[c][1])) => pc[c] # "repair"
    /\ pc[c] = "returned" => response[c].keys \subseteq SchemaFields

\* C6: a call that failed raised DocumentPortalException and nothing else,
\* and the last event it logged is the failure event carrying the caught
\* error's message; a caught error always leads to the except clause, and a
\* call that returned raised nothing.
C6_LoggedThenWrapped ==
  \A c \in Calls :
    /\ exc[c] # NoExc => pc[c] \in {"except", "failed"}
    /\ pc[c] = "returned" => raised[c] = NotRaised
    /\ pc[c] # "failed" => raised[c] = NotRaised
    /\ pc[c] = "failed" =>
         /\ raised[c].kind = "DocumentPortalException"
         /\ raised[c].message = "Metadata extraction failed"
         /\ exc[c] # NoExc
         /\ log[c] # << >>
         /\ log[c][Len(log[c])] = ErrorEvent("Metadata analysis failed", exc[c].msg)

C6_Witness ==
  \E c, d \in Calls :
    /\ pc[c] = "failed" /\ exc[c] = InvalidJsonExc
    /\ pc[d] = "failed" /\ exc[d] = AttributeExc
    /\ Len(log[c]) = 2 /\ Len(log[d]) = 2

ConfigComplete ==
  config.llm /\ config.parser /\ config.fixing_parser /\ config.hasPrompt

\* C7: once construction has ended with a dependency missing, it has
\* raised the initialization error, the 'initialized successfully' event
\* is not in the log, and there is no instance: no call ever starts.
C7_InitFailureIsFatal ==
  (constructed # "no" /\ ~ConfigComplete) =>
    /\ constructed = "failed"
    /\ initRaised.kind = "DocumentPortalException"
    /\ initRaised.message = "Error in DocumentAnalyzer initialization"
    /\ \A i \in 1..Len(log[0]) : log[0][i].level = "error"
    /\ log[0] # << >>
    /\ \A c \in Calls : pc[c] = "idle" /\ genCalls[c] = 0

C7_Witness ==
  /\ constructed = "failed"
  /\ config.fixing_parser
  /\ ~config.hasPrompt

\* C8: a logging call that raises never changes what the caller gets: a
\* call whose chain produced a dict returns it, and a call whose pipeline
\* failed raises the wrapped pipeline error.
C8_LogFailureNeverMasks ==
  \A c \in Calls :
    Terminal(c) =>
      /\ response[c].isdict => (pc[c] = "returned" /\ raised[c] = NotRaised)
      /\ (pc[c] = "failed" /\ exc[c].type # LoggerExc.type) =>
            raised[c].kind = "DocumentPortalException"

\* C9: a call whose first Generator invocation fails at the transport
\* layer makes no other invocation and never enters repair; it fails with
\* the wrapper carrying the transport error, and what it raises differs
\* from what a call raises whose repair was exhausted.
C9_TransportNotRetried ==
  /\ \A c \in Calls :
       (answers[c] # << >> /\ answers[c][1].kind = "transport") =>
         /\ genCalls[c] = 1
         /\ pc[c] \in {"except", "failed"}
         /\ retries[c] = 0
         /\ pc[c] = "failed" => raised[c] = Wrap(TransportExc)
  /\ \A c, d \in Calls :
       (/\ pc[c] = "failed" /\ exc[c] = TransportExc
        /\ pc[d] = "failed" /\ exc[d].type = "OutputParserException") =>
          raised[c] # raised[d]

C9_Witness ==
  \E c, d \in Calls :
    /\ pc[c] = "failed" /\ exc[c] = TransportExc /\ genCalls[c] = 1
    /\ pc[d] = "failed" /\ exc[d] = InvalidJsonExc

\* C10: however the calls interleave, a call that has ended has the
\* outcome and the Generator-invocation count it would have run alone
\* against the answers it received, and no step of a call changes the
\* analyzer's configuration.
C10_CallsAreIndependent ==
  /\ [](\A c \in Calls :
          Terminal(c) => Outcome(c) = RunAlone(config.prompt, answers[c]))
  /\ [][constructed = "ready" => config' = config]_vars

C10_Witness ==
  /\ \A c \in Calls : Terminal(c) /\ genCalls[c] = 2
  /\ pc[1] = "returned"
  /\ pc[2] = "failed"

====
